---- MODULE Spec2Model ----
(***************************************************************************)
(* The Intcode engine of rust-aoc19 as a state machine.                    *)
(*                                                                         *)
(* Two engine variants are modelled side by side:                          *)
(*   "day9": src/day9/src/intcode.rs, sparse memory HashMap<usize, i64>,   *)
(*           relative addressing, opcode 9;                                *)
(*   "day7": src/day7/src/intcode.rs, fixed memory Vec<i32>, no relative   *)
(*           addressing, no validation of the store operand's mode.        *)
(*                                                                         *)
(* Machine integers.  Every machine integer (i32, i64, isize, usize, u32,  *)
(* u64) is written as the mathematical integer of its two's-complement     *)
(* SIGNED reading.  A cast between signed and unsigned types of one width  *)
(* keeps the bit pattern, so it keeps this number; what changes is how the *)
(* bits are used afterwards, and that is modelled where it happens:        *)
(*   - a usize used as a memory key or index: a negative number s stands   *)
(*     for the address 2^64 + s, far above every loaded cell;              *)
(*   - an unsigned integer printed by to_string(): a negative s prints the *)
(*     decimal digits of 2^64 + s (u64) or 2^32 + s (u32).                 *)
(* i32 -> isize/usize casts sign-extend and so keep the number as well.    *)
(* All values the model reaches are far from the types' limits, so no      *)
(* addition or multiplication overflows.                                   *)
(***************************************************************************)
EXTENDS Integers, Sequences, FiniteSets, TLC

VARIABLES
  prg,        \* the IntcodeProgram object (a record of its fields)
  call,       \* the run method whose loop is executing: "none", "run", "run_until_input"
  result,     \* what the last finished call returned: "none", "ok", "err", "panic"
  last_call,  \* the last method called: "none", "new", "run", "run_until_input", "inject_input"
  arg,        \* the argument of the last inject_input call
  stored,     \* history: the values stored by the input instructions executed so far
  steps,      \* the iterations the executing loop has made
  op_value,   \* decoder check: the operation value handed to IntcodeOperation::new
  cur_op,     \* decoder check: what IntcodeOperation::new returned for op_value
  net         \* day7's main: the five amplifier programs and the position in main

vars == <<prg, call, result, last_call, arg, stored, steps, op_value, cur_op, net>>

(***************************************************************************)
(* Bounds of the model.                                                    *)
(***************************************************************************)
\* instructions per generated program
MaxInstrs == 2
\* values ever pushed into one engine's input queue (pre-supplied + injected)
MaxInputs == 2
\* iterations up to which one call's loop is followed
MaxSteps == 5
\* largest operation value the decoder check enumerates
MaxOpValue == 22299

(***************************************************************************)
(* Decoder: IntcodeOperation::new                                          *)
(***************************************************************************)
\* 2^64 = U64High * 10^7 + U64Low and 2^32 = U32High * 10^5 + U32Low, in decimal
U64High == <<1, 8, 4, 4, 6, 7, 4, 4, 0, 7, 3, 7, 0>>
U64Low == 9551616
U32High == <<4, 2, 9, 4, 9>>
U32Low == 67296

RECURSIVE DecDigits(_)
\* the decimal digits of n >= 0, most significant first, no leading zero
DecDigits(n) == IF n < 10 THEN <<n>> ELSE Append(DecDigits(n \div 10), n % 10)

\* ds with zeros put in front up to width w
PadLeft(ds, w) ==
  IF Len(ds) >= w THEN ds
  ELSE [i \in 1..w |-> IF i <= w - Len(ds) THEN 0 ELSE ds[i - (w - Len(ds))]]

\* `op as u64` (day9) or `op as u32` (day7) followed by to_string(): the decimal
\* digits of the unsigned reading of cell value v (v > -U32Low)
to_string(variant, v) ==
  IF v >= 0 THEN DecDigits(v)
  ELSE IF variant = "day9" THEN U64High \o PadLeft(DecDigits(U64Low + v), 7)
  ELSE U32High \o PadLeft(DecDigits(U32Low + v), 5)

\* the opcode text parsed as u8: the whole string when it has one character,
\* its last two characters otherwise
parse_code(op_str) ==
  IF Len(op_str) = 1 THEN op_str[1]
  ELSE op_str[Len(op_str) - 1] * 10 + op_str[Len(op_str)]

valid_opcodes(variant) ==
  IF variant = "day9" THEN {1, 2, 3, 4, 5, 6, 7, 8, 9, 99}
  ELSE {1, 2, 3, 4, 5, 6, 7, 8, 99}

\* mutant of opcode_lens: valid_lens is one entry out of step with valid_opcodes
opcode_lens_misaligned(code) ==
  CASE code \in {2, 3, 8, 9} -> 4
    [] code \in {6, 7} -> 3
    [] code \in {1, 4, 5} -> 2
    [] OTHER -> 1

\* valid_opcodes zipped with valid_lens
opcode_lens(code) ==
  CASE code \in {1, 2, 7, 8} -> 4
    [] code \in {5, 6} -> 3
    [] code \in {3, 4, 9} -> 2
    [] OTHER -> 1

\* the mode text: "000" for a one-character operation, else all but the last two
mode_text(op_str) ==
  IF Len(op_str) = 1 THEN <<0, 0, 0>> ELSE SubSeq(op_str, 1, Len(op_str) - 2)

\* mutant of push_modes: the mode digits kept in reading order
push_modes_forward(op_modes) ==
  IF Len(op_modes) < 3
    THEN op_modes \o [i \in 1..(3 - Len(op_modes)) |-> 0]
    ELSE op_modes

\* the two while loops: the mode characters are removed from the end and pushed,
\* then zeros are pushed until there are three modes.  modes[k] here is
\* self.modes[k - 1] in the source.
push_modes(op_modes) ==
  LET n == Len(op_modes)
      rev == [i \in 1..n |-> op_modes[n + 1 - i]]
  IN IF n < 3 THEN rev \o [i \in 1..(3 - n) |-> 0] ELSE rev

NoOp == [ok |-> FALSE, opcode |-> 0, len |-> 0, modes |-> <<>>]

\* the operation built from the opcode and the text of the operation value:
\* ok = FALSE is Err("Opcode is not valid.")
operation_of(variant, code, op_str) ==
  IF code \notin valid_opcodes(variant)
    THEN [NoOp EXCEPT !.opcode = code]
    ELSE [ok |-> TRUE, opcode |-> code, len |-> opcode_lens(code),
          modes |-> push_modes(mode_text(op_str))]

\* the body of IntcodeOperation::new once op_str = op.to_string() is known
new_from_text(variant, op_str) == operation_of(variant, parse_code(op_str), op_str)

\* IntcodeOperation::new(op)
IntcodeOperation_new(variant, v) == new_from_text(variant, to_string(variant, v))

(***************************************************************************)
(* Memory and operands                                                     *)
(***************************************************************************)
\* the value a read of address a yields in memory m (an absent key reads 0)
Mem(m, a) == IF a \in DOMAIN m THEN m[a] ELSE 0

\* what an operation step hands back: kind is "ok", "err" (an Err(..) value) or
\* "panic" (the thread panics), val its value, prg the program afterwards
R(kind, val, p) == [kind |-> kind, val |-> val, prg |-> p]

\* mutant of or_insert: memory.insert(address, 0), which resets a present key
or_insert_resetting(m, address) ==
  [x \in DOMAIN m \cup {address} |-> IF x = address THEN 0 ELSE m[x]]

\* memory.entry(address).or_insert(0)
or_insert(m, address) ==
  IF address \in DOMAIN m THEN m
  ELSE [x \in DOMAIN m \cup {address} |-> IF x = address THEN 0 ELSE m[x]]

\* day9: get_value(address), which inserts a zero entry for an absent key;
\* day7: memory[address], which panics when the index is out of bounds
get_value(p, address) ==
  IF p.variant = "day9"
    THEN R("ok", Mem(p.memory, address),
           [p EXCEPT !.memory = or_insert(p.memory, address)])
    ELSE IF address \in DOMAIN p.memory
           THEN R("ok", p.memory[address], p)
           ELSE R("panic", 0, p)

\* mutant of set_value: the write is lost
set_value_lost(p, address, value) == R("ok", value, p)

\* day9: set_value(address, value); day7: memory[address] = value
set_value(p, address, value) ==
  IF p.variant = "day9"
    THEN R("ok", value,
           [p EXCEPT !.memory = [or_insert(p.memory, address) EXCEPT ![address] = value]])
    ELSE IF address \in DOMAIN p.memory
           THEN R("ok", value, [p EXCEPT !.memory[address] = value])
           ELSE R("panic", 0, p)

\* mutant of plus_base: the relative base is left out
plus_base_ignoring(g, relative_base) == g

\* (get_value(..) + prg.relative_base as i64) as isize
plus_base(g, relative_base) == R(g.kind, g.val + relative_base, g.prg)

\* mutant of src_addr: relative mode forgets the relative base
src_addr_no_base(p, mode, k) ==
  CASE mode = 0 -> get_value(p, p.instruction_pointer + k)
    [] mode = 1 -> R("ok", p.instruction_pointer + k, p)
    [] mode = 2 /\ p.variant = "day9" -> get_value(p, p.instruction_pointer + k)
    [] OTHER -> R("ok", -1, p)

\* the `match self.modes[k - 1]` of a source parameter: the address of the
\* operand, -1 for an unrecognized mode (day7 knows no relative mode)
src_addr(p, mode, k) ==
  CASE mode = 0 -> get_value(p, p.instruction_pointer + k)
    [] mode = 1 -> R("ok", p.instruction_pointer + k, p)
    [] mode = 2 /\ p.variant = "day9" ->
         plus_base(get_value(p, p.instruction_pointer + k), p.relative_base)
    [] OTHER -> R("ok", -1, p)

\* the `if addr == -1 { return Err(..) }` check, then the value at the address
value_at(a) ==
  IF a.kind # "ok" THEN a
  ELSE IF a.val = -1 THEN R("err", 0, a.prg)
  ELSE get_value(a.prg, a.val)

\* a source parameter: its address, the -1 check, its value
operand(p, mode, k) == value_at(src_addr(p, mode, k))

\* day9, the `match` of the store parameter: position or relative mode,
\* -1 for anything else
store_match(p, mode, k) ==
  CASE mode = 0 -> get_value(p, p.instruction_pointer + k)
    [] mode = 2 ->
         plus_base(get_value(p, p.instruction_pointer + k), p.relative_base)
    [] OTHER -> R("ok", -1, p)

\* day9: `if store_addr == -1 { return Err(..) }`
store_check(a) == IF a.val = -1 THEN R("err", 0, a.prg) ELSE a

\* the store parameter's address.  day7: memory[ip + k] as usize, whatever the
\* mode.  day9: the match and the -1 check.
store_addr(p, mode, k) ==
  IF p.variant = "day7" THEN get_value(p, p.instruction_pointer + k)
  ELSE store_check(store_match(p, mode, k))

\* Ok(prg.instruction_pointer + self.len) after the write w
advance(self, w) ==
  IF w.kind # "ok" THEN w
  ELSE R("ok", w.prg.instruction_pointer + self.len, w.prg)

\* the write of value at the store address s
store_at(self, s, value) ==
  IF s.kind # "ok" THEN s
  ELSE advance(self, set_value(s.prg, s.val, value))

\* the tail of a storing operation: resolve parameter k as the store address,
\* write value there and return Ok(instruction_pointer + len)
store_result(self, p, k, value) == store_at(self, store_addr(p, self.modes[k], k), value)

\* both operand values, or the failure of the second
pair(l, r) == [kind |-> r.kind, l |-> l.val, r |-> r.val, prg |-> r.prg]

\* the second parameter, looked at once the first one is there
second_operand(self, l) ==
  IF l.kind # "ok" THEN [kind |-> l.kind, l |-> 0, r |-> 0, prg |-> l.prg]
  ELSE pair(l, operand(l.prg, self.modes[2], 2))

\* the first two parameters of an operation, in order: l and r are their values
two_operands(self, p) == second_operand(self, operand(p, self.modes[1], 1))

(***************************************************************************)
(* Instruction set                                                         *)
(***************************************************************************)
add_result(self, o) ==
  IF o.kind # "ok" THEN R(o.kind, 0, o.prg)
  ELSE store_result(self, o.prg, 3, o.l + o.r)

op_add(self, p) == add_result(self, two_operands(self, p))

\* mutant of mult_result: the body of op_add left unchanged in op_mult
mult_result_adding(self, o) ==
  IF o.kind # "ok" THEN R(o.kind, 0, o.prg)
  ELSE store_result(self, o.prg, 3, o.l + o.r)

\* |v|
abs(v) == IF v < 0 THEN -v ELSE v

\* l * r fits the 32 bits of day7's i32
fits_i32(l, r) ==
  \/ l = 0
  \/ abs(r) <= 2147483647 \div abs(l)
  \/ ((l < 0) # (r < 0) /\ 2147483647 - abs(l) * (2147483647 \div abs(l)) = abs(l) - 1
        /\ abs(r) = 2147483647 \div abs(l) + 1)

\* a value of more than 32 bits, by its sign and its decimal digits
Wide(neg, digits) == [neg |-> neg, digits |-> digits]

\* n >= 0 as three base-10000 limbs, lowest first
limbs(n) == << n % 10000, (n \div 10000) % 10000, n \div 100000000 >>

\* limb k (from 0) of the product of the limb vectors a and b, before carries
column(a, b, k) ==
  (IF k <= 2 THEN a[1] * b[k + 1] ELSE 0)
  + (IF k >= 1 /\ k <= 3 THEN a[2] * b[k] ELSE 0)
  + (IF k >= 2 /\ k <= 4 THEN a[3] * b[k - 1] ELSE 0)

RECURSIVE carried(_, _, _, _)
\* the decimal digits of a times b from limb k up, highest first, given the
\* carry c into limb k
carried(a, b, k, c) ==
  IF k > 5 THEN <<>>
  ELSE carried(a, b, k + 1, (column(a, b, k) + c) \div 10000)
       \o PadLeft(DecDigits((column(a, b, k) + c) % 10000), 4)

RECURSIVE stripped(_)
\* a digit sequence without its leading zeros
stripped(ds) == IF Len(ds) > 1 /\ ds[1] = 0 THEN stripped(Tail(ds)) ELSE ds

\* l * r in the 64 bits of day9's i64, for l and r of at most 32 bits: the
\* integer when it fits 32 bits, its sign and digits otherwise
product(l, r) ==
  IF fits_i32(l, r) THEN l * r
  ELSE Wide((l < 0) # (r < 0), stripped(carried(limbs(abs(l)), limbs(abs(r)), 0, 0)))

\* mutant of mult_result: the product is computed in 32 bits in day9 as well
mult_result_narrow(self, o) ==
  IF o.kind # "ok" THEN R(o.kind, 0, o.prg)
  ELSE IF ~fits_i32(o.l, o.r) THEN R("overflow", 0, o.prg)
  ELSE store_result(self, o.prg, 3, o.l * o.r)

\* day7 multiplies in i32, day9 in i64; an overflow (kind "overflow") panics
\* in a build with overflow checks and wraps in one without
mult_result(self, o) ==
  IF o.kind # "ok" THEN R(o.kind, 0, o.prg)
  ELSE IF o.prg.variant = "day7" /\ ~fits_i32(o.l, o.r) THEN R("overflow", 0, o.prg)
  ELSE store_result(self, o.prg, 3, product(o.l, o.r))

op_mult(self, p) == mult_result(self, two_operands(self, p))

\* the `value` an input operation obtains: the queue element at input_pointer
\* in Provided mode, the integer read from standard input in User mode
input_value(p, stdin) ==
  IF p.input_mode = "Provided" THEN p.input[p.input_pointer + 1] ELSE stdin

\* Provided mode indexes input[input_pointer] (a panic when out of bounds) and
\* advances input_pointer before the store address is looked at
op_input(self, p, stdin) ==
  IF p.input_mode = "Provided" /\ p.input_pointer >= Len(p.input)
    THEN R("panic", 0, p)
    ELSE store_result(self,
                      IF p.input_mode = "Provided"
                        THEN [p EXCEPT !.input_pointer = @ + 1]
                        ELSE p,
                      1, input_value(p, stdin))

\* mutant of output_result: the log keeps only the value just written
output_result_replacing(self, o) ==
  IF o.kind # "ok" THEN o
  ELSE R("ok", o.prg.instruction_pointer + self.len,
         IF o.prg.input_mode = "Provided"
           THEN [o.prg EXCEPT !.output = <<o.val>>]
           ELSE o.prg)

\* Provided mode pushes the value to the output log, User mode prints it
output_result(self, o) ==
  IF o.kind # "ok" THEN o
  ELSE R("ok", o.prg.instruction_pointer + self.len,
         IF o.prg.input_mode = "Provided"
           THEN [o.prg EXCEPT !.output = Append(@, o.val)]
           ELSE o.prg)

op_output(self, p) == output_result(self, operand(p, self.modes[1], 1))

jump_true_result(self, o) ==
  IF o.kind # "ok" THEN R(o.kind, 0, o.prg)
  ELSE IF o.l # 0 THEN R("ok", o.r, o.prg)
  ELSE R("ok", o.prg.instruction_pointer + self.len, o.prg)

op_jump_true(self, p) == jump_true_result(self, two_operands(self, p))

\* mutant of jump_false_result: the test of op_jump_true left unchanged
jump_false_result_nonzero(self, o) ==
  IF o.kind # "ok" THEN R(o.kind, 0, o.prg)
  ELSE IF o.l # 0 THEN R("ok", o.r, o.prg)
  ELSE R("ok", o.prg.instruction_pointer + self.len, o.prg)

jump_false_result(self, o) ==
  IF o.kind # "ok" THEN R(o.kind, 0, o.prg)
  ELSE IF o.l = 0 THEN R("ok", o.r, o.prg)
  ELSE R("ok", o.prg.instruction_pointer + self.len, o.prg)

op_jump_false(self, p) == jump_false_result(self, two_operands(self, p))

\* l < r on the unsigned readings of l and r
unsigned_less(l, r) == IF (l < 0) = (r < 0) THEN l < r ELSE r < 0

\* mutant of less_than_result: the operands compared after a cast to unsigned
less_than_result_unsigned(self, o) ==
  IF o.kind # "ok" THEN R(o.kind, 0, o.prg)
  ELSE store_result(self, o.prg, 3, IF unsigned_less(o.l, o.r) THEN 1 ELSE 0)

less_than_result(self, o) ==
  IF o.kind # "ok" THEN R(o.kind, 0, o.prg)
  ELSE store_result(self, o.prg, 3, IF o.l < o.r THEN 1 ELSE 0)

op_less_than(self, p) == less_than_result(self, two_operands(self, p))

\* mutant of equals_result: the comparison of op_less_than left unchanged
equals_result_less(self, o) ==
  IF o.kind # "ok" THEN R(o.kind, 0, o.prg)
  ELSE store_result(self, o.prg, 3, IF o.l < o.r THEN 1 ELSE 0)

equals_result(self, o) ==
  IF o.kind # "ok" THEN R(o.kind, 0, o.prg)
  ELSE store_result(self, o.prg, 3, IF o.l = o.r THEN 1 ELSE 0)

op_equals(self, p) == equals_result(self, two_operands(self, p))

\* mutant of adj_rel_base_result: the relative base is set, not adjusted
adj_rel_base_result_setting(self, o) ==
  IF o.kind # "ok" THEN o
  ELSE R("ok", o.prg.instruction_pointer + self.len,
         [o.prg EXCEPT !.relative_base = o.val])

adj_rel_base_result(self, o) ==
  IF o.kind # "ok" THEN o
  ELSE R("ok", o.prg.instruction_pointer + self.len,
         [o.prg EXCEPT !.relative_base = @ + o.val])

op_adj_rel_base(self, p) == adj_rel_base_result(self, operand(p, self.modes[1], 1))

\* dispatch on the opcode; Err("Invalid opcode.") for anything else
perform(self, p, stdin) ==
  CASE self.opcode = 1 -> op_add(self, p)
    [] self.opcode = 2 -> op_mult(self, p)
    [] self.opcode = 3 -> op_input(self, p, stdin)
    [] self.opcode = 4 -> op_output(self, p)
    [] self.opcode = 5 -> op_jump_true(self, p)
    [] self.opcode = 6 -> op_jump_false(self, p)
    [] self.opcode = 7 -> op_less_than(self, p)
    [] self.opcode = 8 -> op_equals(self, p)
    [] self.opcode = 9 /\ p.variant = "day9" -> op_adj_rel_base(self, p)
    [] OTHER -> R("err", 0, p)

(***************************************************************************)
(* The program object and its methods                                      *)
(***************************************************************************)
\* IntcodeProgram::new(data, prg_input): data is the parsed program text,
\* prg_input is None ([some |-> FALSE]) or Some(vec)
IntcodeProgram_new(variant, data, prg_input) ==
  [variant |-> variant,
   memory |-> [i \in 0..(Len(data) - 1) |-> data[i + 1]],
   relative_base |-> 0,
   instruction_pointer |-> 0,
   input_mode |-> IF prg_input.some THEN "Provided" ELSE "User",
   input |-> prg_input.vec,
   input_pointer |-> 0,
   output |-> <<>>,
   active |-> TRUE]

\* IntcodeOperation::new(cell).unwrap(): kind "panic" when new returned Err
unwrap_new(op, p) == [kind |-> IF op.ok THEN "ok" ELSE "panic", op |-> op, prg |-> p]

\* the operation decoded from the cell f just read
decode_cell(f) ==
  IF f.kind # "ok" THEN [kind |-> "panic", op |-> NoOp, prg |-> f.prg]
  ELSE unwrap_new(IntcodeOperation_new(f.prg.variant, f.val), f.prg)

\* IntcodeOperation::new(self.get_value(self.instruction_pointer) as u64).unwrap()
fetch(p) == decode_cell(get_value(p, p.instruction_pointer))

\* what one pass through a run loop, or one inject_input call, comes to:
\* kind is "continue" (next iteration), "break" (the method returns Ok(())),
\* "err" (it returns an Err) or "panic"; stored lists the value an executed
\* input instruction wrote
It(kind, p, st) == [kind |-> kind, prg |-> p, stored |-> st]

\* mutant of loop_result: a failed operation is stepped over
loop_result_skipping(self, p, r, stdin) ==
  IF r.kind = "ok"
    THEN It("continue", [r.prg EXCEPT !.instruction_pointer = r.val],
            IF self.opcode = 3 THEN <<input_value(p, stdin)>> ELSE <<>>)
    ELSE It(r.kind, [r.prg EXCEPT !.instruction_pointer = @ + self.len], <<>>)

\* the `if let Err(e) = result .. else if let Ok(new_pos) = result` of the loops;
\* p is the program the operation was performed on
loop_result(self, p, r, stdin) ==
  IF r.kind = "ok"
    THEN It("continue", [r.prg EXCEPT !.instruction_pointer = r.val],
            IF self.opcode = 3 THEN <<input_value(p, stdin)>> ELSE <<>>)
    ELSE It(r.kind, r.prg, <<>>)

\* mutant of run_body: the exit opcode leaves the program active
run_body_active(d, stdin) ==
  IF d.kind # "ok" THEN It("panic", d.prg, <<>>)
  ELSE IF d.op.opcode = 99 THEN It("break", d.prg, <<>>)
  ELSE loop_result(d.op, d.prg, perform(d.op, d.prg, stdin), stdin)

\* the body of the loop of run() for the fetched operation d
run_body(d, stdin) ==
  IF d.kind # "ok" THEN It("panic", d.prg, <<>>)
  ELSE IF d.op.opcode = 99 THEN It("break", [d.prg EXCEPT !.active = FALSE], <<>>)
  ELSE loop_result(d.op, d.prg, perform(d.op, d.prg, stdin), stdin)

\* one iteration of the loop of run()
run_iteration(p, stdin) == run_body(fetch(p), stdin)

\* mutant of run_until_input_body: an input operation is performed when the
\* queue holds an unread value
run_until_input_body_reading(d, stdin) ==
  IF d.kind # "ok" THEN It("panic", d.prg, <<>>)
  ELSE IF d.op.opcode = 99 THEN It("break", [d.prg EXCEPT !.active = FALSE], <<>>)
  ELSE IF d.op.opcode = 3 /\ d.prg.input_pointer >= Len(d.prg.input)
    THEN It("break", d.prg, <<>>)
  ELSE loop_result(d.op, d.prg, perform(d.op, d.prg, stdin), stdin)

\* the body of the loop of run_until_input() for the fetched operation d
run_until_input_body(d, stdin) ==
  IF d.kind # "ok" THEN It("panic", d.prg, <<>>)
  ELSE IF d.op.opcode = 99 THEN It("break", [d.prg EXCEPT !.active = FALSE], <<>>)
  ELSE IF d.op.opcode = 3 THEN It("break", d.prg, <<>>)
  ELSE loop_result(d.op, d.prg, perform(d.op, d.prg, stdin), stdin)

\* one iteration of the loop of run_until_input()
run_until_input_iteration(p, stdin) == run_until_input_body(fetch(p), stdin)

\* mutant of push_input: the read position is left where it was
push_input_no_seek(p, value) == [p EXCEPT !.input = Append(@, value)]

\* self.input.push(value); self.input_pointer = self.input.len() - 1
push_input(p, value) ==
  [p EXCEPT !.input = Append(@, value), !.input_pointer = Len(p.input)]

\* the end of inject_input: the result of the read operation performed on p
inject_result(p, r, stdin) ==
  IF r.kind = "ok"
    THEN It("break", [r.prg EXCEPT !.instruction_pointer = r.val],
            <<input_value(p, stdin)>>)
    ELSE It(r.kind, r.prg, <<>>)

\* the read operation of inject_input performed on p, the program after the push
inject_perform(read_op, p, stdin) == inject_result(p, perform(read_op, p, stdin), stdin)

\* mutant of inject_body: no check that the operation is a read
inject_body_unchecked(d, value, stdin) ==
  IF d.kind # "ok" THEN It("panic", d.prg, <<>>)
  ELSE inject_perform(d.op, push_input(d.prg, value), stdin)

\* inject_input(value) for the fetched operation d
inject_body(d, value, stdin) ==
  IF d.kind # "ok" THEN It("panic", d.prg, <<>>)
  ELSE IF d.op.opcode # 3 THEN It("err", d.prg, <<>>)
  ELSE inject_perform(d.op, push_input(d.prg, value), stdin)

\* inject_input(value)
inject_input(p, value, stdin) == inject_body(fetch(p), value, stdin)

(***************************************************************************)
(* Programs and inputs the model draws from                                *)
(***************************************************************************)
Variants == {"day7", "day9"}

\* the instructions the generated programs are made of
Templates ==
  { <<3, 0>>,             \* input, position-mode store
    <<103, 0>>,           \* input, immediate mode on the store parameter
    <<203, 2>>,           \* input, relative-mode store
    <<3, -1>>,            \* input, store address -1
    <<4, 2>>,             \* output, position mode
    <<104, -1>>,          \* output, immediate mode
    <<204, -2>>,          \* output, relative mode, negative offset
    <<109, 2>>,           \* adjust relative base
    <<1001, 1, 5, 4>>,    \* add, position + immediate
    <<11101, 1, 1, 0>>,   \* add, immediate mode on the store parameter
    <<1105, 1, 0>>,       \* jump-if-true back to address 0
    <<99>> }              \* halt

RECURSIVE ProgramsOf(_)
\* the program texts of 1..n instructions
ProgramsOf(n) ==
  IF n = 0 THEN {}
  ELSE Templates \cup ProgramsOf(n - 1)
       \cup {d \o t : d \in ProgramsOf(n - 1), t \in Templates}

None == [some |-> FALSE, vec |-> <<>>]
Some(vec) == [some |-> TRUE, vec |-> vec]

\* the prg_input arguments of IntcodeProgram::new
PrgInputs == {None, Some(<<>>), Some(<<7>>)}
\* the arguments of inject_input
InjectValues == {8, 9}
\* the integers typed on standard input in User mode
StdinValues == {6}

(***************************************************************************)
(* The engine under calls of its public methods                            *)
(***************************************************************************)
IdleOp == [variant |-> "none", decoded |-> FALSE, op |-> NoOp]

\* main has not been started
IdleNet == [pc |-> "idle"]

Init ==
  /\ \E variant \in Variants, data \in ProgramsOf(MaxInstrs), prg_input \in PrgInputs :
       prg = IntcodeProgram_new(variant, data, prg_input)
  /\ call = "none"
  /\ result = "none"
  /\ last_call = "new"
  /\ arg = 0
  /\ stored = <<>>
  /\ steps = 0
  /\ op_value = 0
  /\ cur_op = IdleOp
  /\ net = IdleNet

\* a caller invokes run(); a panic has ended the process
CallRun ==
  /\ call = "none"
  /\ result # "panic"
  /\ call' = "run"
  /\ last_call' = "run"
  /\ result' = "none"
  /\ UNCHANGED <<prg, arg, stored, steps, op_value, cur_op, net>>

\* a caller invokes run_until_input()
CallRunUntilInput ==
  /\ call = "none"
  /\ result # "panic"
  /\ call' = "run_until_input"
  /\ last_call' = "run_until_input"
  /\ result' = "none"
  /\ UNCHANGED <<prg, arg, stored, steps, op_value, cur_op, net>>

\* what an iteration's kind makes of the call
Returned(kind) ==
  CASE kind = "continue" -> "none"
    [] kind = "break" -> "ok"
    [] OTHER -> kind

\* the state after iteration `it` of the loop of method `method`; the history
\* of stored values is kept for batch mode
Iterated(it, method) ==
  /\ prg' = it.prg
  /\ call' = IF it.kind = "continue" THEN method ELSE "none"
  /\ result' = Returned(it.kind)
  /\ stored' = IF prg.input_mode = "Provided" THEN stored \o it.stored ELSE stored
  /\ steps' = IF it.kind = "continue" THEN steps + 1 ELSE 0

LoopRun ==
  /\ call = "run"
  /\ steps < MaxSteps
  /\ \E stdin \in StdinValues : Iterated(run_iteration(prg, stdin), "run")
  /\ UNCHANGED <<last_call, arg, op_value, cur_op, net>>

LoopRunUntilInput ==
  /\ call = "run_until_input"
  /\ steps < MaxSteps
  /\ \E stdin \in StdinValues :
       Iterated(run_until_input_iteration(prg, stdin), "run_until_input")
  /\ UNCHANGED <<last_call, arg, op_value, cur_op, net>>

\* the state after an inject_input call that came to `it`
Injected(it, value) ==
  /\ Len(it.prg.input) <= MaxInputs
  /\ Iterated(it, "none")
  /\ arg' = value

\* a caller invokes inject_input(value)
InjectInput ==
  /\ call = "none"
  /\ result # "panic"
  /\ \E value \in InjectValues, stdin \in StdinValues :
       Injected(inject_input(prg, value, stdin), value)
  /\ last_call' = "inject_input"
  /\ UNCHANGED <<op_value, cur_op, net>>

Next == CallRun \/ CallRunUntilInput \/ LoopRun \/ LoopRunUntilInput \/ InjectInput

Spec == Init /\ [][Next]_vars

(***************************************************************************)
(* The decoder on its own                                                  *)
(***************************************************************************)
\* operation values of six and seven digits
LongOpValues == {100000 * h + m * 100 + c : h \in {1, 10, 12}, m \in {0, 12, 201}, c \in {1, 3, 9, 99}}

OpValues == (-300..MaxOpValue) \cup LongOpValues

DecodeInit ==
  /\ op_value \in OpValues
  /\ \E variant \in Variants : cur_op = [IdleOp EXCEPT !.variant = variant]
  /\ prg = IntcodeProgram_new("day9", <<99>>, None)
  /\ call = "none"
  /\ result = "none"
  /\ last_call = "none"
  /\ arg = 0
  /\ stored = <<>>
  /\ steps = 0
  /\ net = IdleNet

\* IntcodeOperation::new(op_value) is called
Decode ==
  /\ ~cur_op.decoded
  /\ cur_op' = [cur_op EXCEPT !.decoded = TRUE,
                              !.op = IntcodeOperation_new(cur_op.variant, op_value)]
  /\ UNCHANGED <<prg, call, result, last_call, arg, stored, steps, op_value, net>>

DecodeNext == Decode

DecodeSpec == DecodeInit /\ [][DecodeNext]_vars

(***************************************************************************)
(* The engine on single instructions under every mode combination          *)
(***************************************************************************)
\* the mode digits tried on every parameter: position, immediate, relative and
\* one digit that is no mode
ModeDigits == 0..3
\* the raw values of source parameters
SourceParams == {-3, 0, 2}
\* the raw values of store parameters: a loaded cell and one never loaded
StoreParams == {0, 7}

\* the operation value with opcode c and mode digits m1, m2, m3
word(c, m1, m2, m3) == m3 * 10000 + m2 * 1000 + m1 * 100 + c

\* add, multiply, less-than, equals
StoringInstrs ==
  { <<word(c, m1, m2, m3), a, b, d>> :
      c \in {1, 2, 7, 8}, m1 \in ModeDigits, m2 \in ModeDigits, m3 \in ModeDigits,
      a \in SourceParams, b \in SourceParams, d \in StoreParams }

\* jump-if-true, jump-if-false
JumpInstrs ==
  { <<word(c, m1, m2, 0), a, t>> :
      c \in {5, 6}, m1 \in ModeDigits, m2 \in ModeDigits,
      a \in SourceParams, t \in SourceParams }

\* input, output, adjust-relative-base
UnaryInstrs ==
  { <<word(c, m1, 0, 0), a>> : c \in {3, 4, 9}, m1 \in ModeDigits, a \in SourceParams }

\* what runs before the instruction: nothing, or a relative-base adjustment
Prefixes == { <<>>, <<109, 2>> }

\* one instruction, under relative base 0 or 2, followed by a halt
InstrPrograms ==
  { pre \o i \o <<99>> :
      pre \in Prefixes, i \in StoringInstrs \cup JumpInstrs \cup UnaryInstrs }

OpInit ==
  /\ \E variant \in Variants, data \in InstrPrograms, prg_input \in PrgInputs :
       prg = IntcodeProgram_new(variant, data, prg_input)
  /\ call = "none"
  /\ result = "none"
  /\ last_call = "new"
  /\ arg = 0
  /\ stored = <<>>
  /\ steps = 0
  /\ op_value = 0
  /\ cur_op = IdleOp
  /\ net = IdleNet

OpSpec == OpInit /\ [][Next]_vars

(***************************************************************************)
(* The programs of the unit tests and of day5's main, run to completion    *)
(***************************************************************************)
\* iterations of the loop of run() a test program is followed for
MaxTestSteps == 85

\* tests::quine_program
Quine == <<109, 1, 204, -1, 1001, 100, 1, 100, 1008, 100, 16, 101, 1006, 101, 0, 99>>

\* the integers given to the programs of day5's main
TestInputs == {-1, 0, 7, 8, 9}

\* the IntcodeProgram::new calls of the tests (the tests of day5 and day7 run
\* the first two programs as well) and of day5's first test program, its
\* input given in batch mode
TestCases ==
  { [variant |-> v, data |-> d, prg_input |-> None] :
      v \in Variants, d \in { <<1002, 4, 3, 4, 33>>, <<1101, 100, -1, 4, 0>> } }
  \cup
  { [variant |-> "day9", data |-> d, prg_input |-> Some(<<>>)] :
      d \in { Quine,
              <<1102, 34915192, 34915192, 7, 4, 7, 99, 0>>,
              <<104, Wide(FALSE, <<1, 1, 2, 5, 8, 9, 9, 9, 0, 6, 8, 4, 2, 6, 2, 4>>), 99>> } }
  \cup
  { [variant |-> v, data |-> <<3, 9, 8, 9, 10, 9, 4, 9, 99, -1, 8>>, prg_input |-> Some(<<x>>)] :
      v \in Variants, x \in TestInputs }

\* net keeps the arguments the program was made from
TestInit ==
  /\ \E t \in TestCases :
       /\ prg = IntcodeProgram_new(t.variant, t.data, t.prg_input)
       /\ net = [pc |-> "idle", data |-> t.data, prg_input |-> t.prg_input]
  /\ call = "none"
  /\ result = "none"
  /\ last_call = "new"
  /\ arg = 0
  /\ stored = <<>>
  /\ steps = 0
  /\ op_value = 0
  /\ cur_op = IdleOp

\* one iteration of the loop of run() on a test program
LoopRunTest ==
  /\ call = "run"
  /\ steps < MaxTestSteps
  /\ \E stdin \in StdinValues : Iterated(run_iteration(prg, stdin), "run")
  /\ UNCHANGED <<last_call, arg, op_value, cur_op, net>>

TestNext == CallRun \/ LoopRunTest

TestSpec == TestInit /\ [][TestNext]_vars

(***************************************************************************)
(* day2: the first engine, add, multiply and halt on a Vec<u32>            *)
(***************************************************************************)
\* the test programs of day2's main
Day2Tests ==
  { <<1, 9, 10, 3, 2, 3, 11, 0, 99, 30, 40, 50>>,
    <<1, 0, 0, 0, 99>>,
    <<2, 3, 0, 3, 99>>,
    <<2, 4, 4, 5, 99, 0>>,
    <<1, 1, 1, 4, 99, 5, 6, 0, 99>> }

\* one add or multiply instruction with every choice of its three addresses,
\* some of them outside the vector, in front of a halt and two values
Day2Programs ==
  Day2Tests \cup { <<c, a, b, d, 99, 30, 40>> : c \in {1, 2}, a, b, d \in 0..7 }

\* build_intcode_program: the vector of the parsed values, indexed from 0
build_intcode_program(text) == [i \in 0..(Len(text) - 1) |-> text[i + 1]]

\* the state of run() with data vector d at instruction pointer ip
D2(pc, d, ip) == [pc |-> pc, data |-> d, ip |-> ip]

\* self.data[addr] = value; ip += 4
d2_store(s, addr, value) ==
  IF addr \notin DOMAIN s.data THEN D2("panic", s.data, s.ip)
  ELSE D2("loop", [s.data EXCEPT ![addr] = value], s.ip + 4)

\* mutant of d2_prod: the sum of the add branch
d2_prod_adding(l, r) == l + r

\* self.data[op_l] * self.data[op_r]
d2_prod(l, r) == l * r

\* the add and multiply branches with the three addresses extracted; any
\* other value at ip only advances
d2_branch(s, op_l, op_r, addr) ==
  IF s.data[s.ip] \notin {1, 2} THEN D2("loop", s.data, s.ip + 4)
  ELSE IF op_l \notin DOMAIN s.data \/ op_r \notin DOMAIN s.data
    THEN D2("panic", s.data, s.ip)
  ELSE IF s.data[s.ip] = 1
    THEN IF s.data[op_l] > 2147483647 - s.data[op_r] THEN D2("wide", s.data, s.ip)
         ELSE d2_store(s, addr, s.data[op_l] + s.data[op_r])
  ELSE IF ~fits_i32(s.data[op_l], s.data[op_r]) THEN D2("wide", s.data, s.ip)
  ELSE d2_store(s, addr, d2_prod(s.data[op_l], s.data[op_r]))

\* one iteration of the loop of day2's run(); an index outside the vector
\* panics, and a value of more than 31 bits (pc "wide") is not followed
d2_iteration(s) ==
  IF s.ip \notin DOMAIN s.data THEN D2("panic", s.data, s.ip)
  ELSE IF s.data[s.ip] = 99 THEN D2("returned", s.data, s.ip)
  ELSE IF s.ip + 3 \notin DOMAIN s.data THEN D2("panic", s.data, s.ip)
  ELSE d2_branch(s, s.data[s.ip + 1], s.data[s.ip + 2], s.data[s.ip + 3])

\* test_prg.run() is about to start; text keeps the program text
Day2Init ==
  /\ \E text \in Day2Programs :
       net = D2("loop", build_intcode_program(text), 0) @@ [text |-> text]
  /\ prg = IntcodeProgram_new("day7", <<99>>, None)
  /\ call = "none"
  /\ result = "none"
  /\ last_call = "none"
  /\ arg = 0
  /\ stored = <<>>
  /\ steps = 0
  /\ op_value = 0
  /\ cur_op = IdleOp

\* one pass through the loop of run()
Day2Iteration ==
  /\ net.pc = "loop"
  /\ net' = d2_iteration(net) @@ [text |-> net.text]
  /\ UNCHANGED <<prg, call, result, last_call, arg, stored, steps, op_value, cur_op>>

Day2Next == Day2Iteration

Day2Spec == Day2Init /\ [][Day2Next]_vars

(***************************************************************************)
(* day7: the Johnson-Trotter permutations of the phase settings            *)
(***************************************************************************)
\* permutations johnson_trotter may push here before its loop is cut off
MaxPermutations == 130

\* an Option<usize>
NoIndex == [some |-> FALSE, val |-> 0]
SomeIndex(i) == [some |-> TRUE, val |-> i]

\* mutant of swap: the lower position is overwritten, the higher one kept
swap_copying(x, i, j) ==
  IF i = j THEN x
  ELSE IF i < j THEN [x EXCEPT ![i + 1] = x[j + 1]]
  ELSE [x EXCEPT ![j + 1] = x[i + 1]]

\* swap(x, i, j) on a vector x; indices count from 0
swap(x, i, j) ==
  IF i = j THEN x
  ELSE [x EXCEPT ![i + 1] = x[j + 1], ![j + 1] = x[i + 1]]

RECURSIVE index_from(_, _, _, _)
\* `for i in 0..5 { if elements[i] == k { k_ind = i; break; } }` from i on
index_from(elements, k, i, k_ind) ==
  IF i >= 5 THEN k_ind
  ELSE IF elements[i + 1] = k THEN i
  ELSE index_from(elements, k, i + 1, k_ind)

\* the `check if element is mobile` test for the element k at index k_ind
mobile(elements, directions, k, k_ind) ==
  IF directions[(k - 5) + 1]
    THEN k_ind < 4 /\ elements[k_ind + 1] > elements[k_ind + 2]
    ELSE k_ind > 0 /\ elements[k_ind + 1] > elements[k_ind]

RECURSIVE largest_from(_, _, _, _)
\* the element found for k once its index k_ind is known
largest_at(elements, directions, k, k_ind) ==
  IF mobile(elements, directions, k, k_ind) THEN [k |-> k, k_ind |-> k_ind]
  ELSE largest_from(elements, directions, k - 1, k_ind)

\* the `while k >= 5` loop of find_largest_mobile_element from k on
largest_from(elements, directions, k, k_ind) ==
  IF k < 5 THEN [k |-> k, k_ind |-> k_ind]
  ELSE largest_at(elements, directions, k, index_from(elements, k, 0, k_ind))

\* `if k == 4 { return None; } Some(k_ind)`
found(r) == IF r.k = 4 THEN NoIndex ELSE SomeIndex(r.k_ind)

find_largest_mobile_element(elements, directions) ==
  found(largest_from(elements, directions, 9, 0))

\* mutant of reverse_larger: the direction of k_val itself is reversed too
reverse_from_k(directions, k_val) ==
  [i \in 1..5 |-> IF i - 1 >= k_val - 5 THEN ~directions[i] ELSE directions[i]]

\* `for i in (k_val - 4)..5 { directions[i] = !directions[i]; }`
reverse_larger(directions, k_val) ==
  [i \in 1..5 |-> IF i - 1 >= k_val - 4 THEN ~directions[i] ELSE directions[i]]

\* the swap of the element at index k with its neighbour in its direction; an
\* index outside the vector panics
swapped(elements, directions, k) ==
  IF directions[(elements[k + 1] - 5) + 1]
    THEN IF k + 1 > 4 THEN <<>> ELSE swap(elements, k, k + 1)
    ELSE IF k < 1 THEN <<>> ELSE swap(elements, k - 1, k)

\* the end of a loop iteration: the new permutation is pushed
pushed(s, elements, k_val) ==
  IF elements = <<>> THEN [s EXCEPT !.pc = "panic"]
  ELSE [s EXCEPT !.elements = elements,
                 !.directions = reverse_larger(s.directions, k_val),
                 !.permutations = Append(@, elements)]

\* one iteration of the `loop` of johnson_trotter for the index k found
moved(s, k) ==
  IF ~k.some THEN [s EXCEPT !.pc = "returned"]
  ELSE pushed(s, swapped(s.elements, s.directions, k.val), s.elements[k.val + 1])

\* one iteration of the `loop` of johnson_trotter in state s
jt_iteration(s) == moved(s, find_largest_mobile_element(s.elements, s.directions))

\* johnson_trotter before its loop
jt_start ==
  [pc |-> "jt", elements |-> <<5, 6, 7, 8, 9>>,
   directions |-> <<FALSE, FALSE, FALSE, FALSE, FALSE>>,
   permutations |-> << <<5, 6, 7, 8, 9>> >>]

RECURSIVE jt_loop(_)
\* the loop of johnson_trotter from state s on
jt_loop(s) ==
  IF s.pc # "jt" \/ Len(s.permutations) >= MaxPermutations THEN s
  ELSE jt_loop(jt_iteration(s))

\* the vector johnson_trotter() returns
johnson_trotter == jt_loop(jt_start).permutations

JtInit ==
  /\ net = jt_start
  /\ prg = IntcodeProgram_new("day7", <<99>>, None)
  /\ call = "none"
  /\ result = "none"
  /\ last_call = "none"
  /\ arg = 0
  /\ stored = <<>>
  /\ steps = 0
  /\ op_value = 0
  /\ cur_op = IdleOp

\* one pass through the loop of johnson_trotter
JtIteration ==
  /\ net.pc = "jt"
  /\ Len(net.permutations) < MaxPermutations
  /\ net' = jt_iteration(net)
  /\ UNCHANGED <<prg, call, result, last_call, arg, stored, steps, op_value, cur_op>>

JtNext == JtIteration

\* the function runs on until it returns
JtSpec == JtInit /\ [][JtNext]_vars /\ WF_vars(JtNext)

(***************************************************************************)
(* day7's main: five amplifier programs in a feedback loop                 *)
(***************************************************************************)
\* iterations one run_until_input call may make here; a call that needs more
\* does not return
MaxFuel == 12

RECURSIVE run_until_input_from(_, _)
\* the rest of a run_until_input call after the iteration that came to `it`
run_until_input_rest(it, fuel) ==
  IF it.kind # "continue" THEN it
  ELSE IF fuel = 0 THEN It("hang", it.prg, <<>>)
  ELSE run_until_input_from(it.prg, fuel - 1)

\* the loop of run_until_input() from program p on
run_until_input_from(p, fuel) ==
  run_until_input_rest(run_until_input_iteration(p, 0), fuel)

\* a whole run_until_input() call on p
run_until_input(p) == run_until_input_from(p, MaxFuel)

\* the amplifier programs main is given: the data read from the file
AmpPrograms ==
  { \* five rounds: out = 2 * in + phase - 4 each turn
    <<3, 26, 1001, 26, -4, 26, 3, 27, 1002, 27, 2, 27, 1, 27, 26, 27, 4, 27,
      1001, 28, -1, 28, 1005, 28, 6, 99, 0, 0, 5>>,
    \* one round: out = in + phase
    <<3, 11, 3, 12, 1, 11, 12, 12, 4, 12, 99, 0, 0>>,
    \* two rounds: out = in + 1, then out = in + 1 again
    <<3, 0, 3, 0, 1001, 0, 1, 0, 4, 0, 3, 0, 1001, 0, 1, 0, 4, 0, 99>>,
    \* one round without any output
    <<3, 0, 3, 0, 99>>,
    \* halts before reading anything
    <<99>>,
    \* an undefined opcode behind the first output
    <<3, 0, 3, 0, 4, 0, 0>>,
    \* an instruction error behind the first output (no relative mode in day7)
    <<3, 0, 3, 0, 4, 0, 204, 0, 99>>,
    \* an output before the first input instruction
    <<104, 1, 3, 0, 4, 0, 99>>,
    \* the phase setting is put out, then the program halts
    <<3, 0, 4, 0, 99>>,
    \* one round for phase setting 5, two rounds for the others: out = in
    <<3, 30, 1008, 30, 5, 31, 1002, 31, -1, 31, 1001, 31, 2, 31, 3, 32, 4, 32,
      1001, 31, -1, 31, 1005, 31, 14, 99, 0, 0, 0, 0, 0, 0, 0>>,
    \* one round: out = in - phase
    <<3, 15, 3, 16, 1002, 15, -1, 15, 1, 15, 16, 16, 4, 16, 99, 0, 0>> }

\* let phase_configs = johnson_trotter()
phase_configs == johnson_trotter

\* phase_configs[i].elements for the i of the `for i in 0..120` loop
elements == phase_configs[net.i + 1]

\* amplifier k's program object (amp_a .. amp_e are 1 .. 5)
Amp(k) == net.amps[k]

\* net with amplifier k's program object replaced by p
WithAmp(k, p) == [net EXCEPT !.amps[k] = p]

\* mutant of last_output: the first element of the output log
first_output(p) == p.output[1]

\* amp.output[amp.output.len() - 1]
last_output(p) == p.output[Len(p.output)]

\* the amplifier before k in the cycle
Before(k) == IF k = 1 THEN 5 ELSE k - 1

FeedbackInit ==
  /\ \E data \in AmpPrograms :
       net = [pc |-> "new", stage |-> "init", idx |-> 1, data |-> data,
              i |-> 0, amps |-> <<>>, cur_o |-> 0,
              injected |-> 0, first |-> TRUE,
              max_final |-> 0, max_ind |-> 0, finals |-> <<>>,
              reported |-> FALSE]
  /\ prg = IntcodeProgram_new("day7", <<99>>, None)
  /\ call = "none"
  /\ result = "none"
  /\ last_call = "none"
  /\ arg = 0
  /\ stored = <<>>
  /\ steps = 0
  /\ op_value = 0
  /\ cur_op = IdleOp

\* main's statements leave the engine of the other specifications alone
EngineIdle == UNCHANGED <<prg, call, result, last_call, arg, stored, steps, op_value, cur_op>>

\* let mut amp_x = IntcodeProgram::new(&data, Some(vec![]))
AmpNew ==
  /\ net.pc = "new"
  /\ net' = [net EXCEPT !.amps = Append(@, IntcodeProgram_new("day7", net.data, Some(<<>>))),
                        !.pc = "inject"]
  /\ EngineIdle

\* main after the inject_prg_input call that came to `it`: an Err is printed
\* (reported keeps that it was) and dropped, a panic ends the process
AfterInject(it, value) ==
  net' = IF it.kind = "panic"
           THEN [net EXCEPT !.pc = "panic", !.injected = value]
           ELSE [WithAmp(net.idx, it.prg) EXCEPT
                   !.pc = "run", !.injected = value,
                   !.first = IF net.stage = "loop" THEN FALSE ELSE @,
                   !.reported = @ \/ it.kind = "err"]

\* the value main hands to inject_prg_input: the phase setting before the
\* loop, cur_o inside it
InjectedValue == IF net.stage = "init" THEN elements[net.idx] ELSE net.cur_o

\* inject_prg_input(&mut amp_x, value)
AmpInject ==
  /\ net.pc = "inject"
  /\ AfterInject(inject_input(Amp(net.idx), InjectedValue, 0), InjectedValue)
  /\ EngineIdle

\* main's next statement after a run_prg_until_input call in net n
after_run(n) ==
  IF n.stage = "loop" THEN [n EXCEPT !.pc = "read"]
  ELSE IF n.idx < 5 THEN [n EXCEPT !.pc = "new", !.idx = @ + 1]
  ELSE [n EXCEPT !.pc = "test", !.cur_o = 0]

\* main after the run_prg_until_input call that came to `it`: an Err is
\* printed and dropped
AfterRun(it) ==
  /\ it.kind # "hang"
  /\ net' = IF it.kind = "panic" THEN [net EXCEPT !.pc = "panic"]
            ELSE after_run([WithAmp(net.idx, it.prg) EXCEPT
                              !.reported = @ \/ it.kind = "err"])

\* run_prg_until_input(&mut amp_x)
AmpRun ==
  /\ net.pc = "run"
  /\ AfterRun(run_until_input(Amp(net.idx)))
  /\ EngineIdle

\* cur_o = amp_x.output[amp_x.output.len() - 1]: a panic on an empty log
AmpRead ==
  /\ net.pc = "read"
  /\ net' = IF Amp(net.idx).output = <<>> THEN [net EXCEPT !.pc = "panic"]
            ELSE IF net.idx < 5
              THEN [net EXCEPT !.cur_o = last_output(Amp(net.idx)),
                               !.pc = "inject", !.idx = @ + 1]
            ELSE [net EXCEPT !.cur_o = last_output(Amp(net.idx)), !.pc = "test"]
  /\ EngineIdle

\* while amp_e.active
LoopTest ==
  /\ net.pc = "test"
  /\ net' = IF Amp(5).active
              THEN [net EXCEPT !.pc = "inject", !.idx = 1, !.stage = "loop"]
              ELSE [net EXCEPT !.pc = "end"]
  /\ EngineIdle

\* `if cur_o > max_final { max_final = cur_o; max_ind = i; }`
retained(n) ==
  IF n.cur_o > n.max_final THEN [n EXCEPT !.max_final = n.cur_o, !.max_ind = n.i]
  ELSE n

\* the end of the body of `for i in 0..120`: the next permutation, or the end
\* of the loop; finals keeps the cur_o of every permutation evaluated
next_permutation(n) ==
  IF n.i + 1 < 120
    THEN [n EXCEPT !.pc = "new", !.stage = "init", !.idx = 1, !.i = @ + 1,
                   !.amps = <<>>, !.cur_o = 0, !.injected = 0, !.first = TRUE,
                   !.reported = FALSE,
                   !.finals = Append(@, n.cur_o)]
    ELSE [n EXCEPT !.pc = "done", !.finals = Append(@, n.cur_o)]

\* the comparison after the feedback loop of one permutation
Compare ==
  /\ net.pc = "end"
  /\ net' = next_permutation(retained(net))
  /\ EngineIdle

FeedbackNext == AmpNew \/ AmpInject \/ AmpRun \/ AmpRead \/ LoopTest \/ Compare

FeedbackSpec == FeedbackInit /\ [][FeedbackNext]_vars

(***************************************************************************)
(* Vocabulary of the properties                                            *)
(***************************************************************************)
\* the cell at the instruction pointer can be read without a panic
CellReadable(p) == p.variant = "day9" \/ p.instruction_pointer \in DOMAIN p.memory

\* what the cell at the instruction pointer decodes to
OpAt(p) == IntcodeOperation_new(p.variant, Mem(p.memory, p.instruction_pointer))

\* the cell at the instruction pointer decodes to an operation with opcode c
AtOpcode(p, c) == CellReadable(p) /\ OpAt(p).ok /\ OpAt(p).opcode = c

\* the engine runs in batch mode
Batch(p) == p.input_mode = "Provided"

\* every address reads the same value in m1 and m2
SameCells(m1, m2) ==
  \A a \in DOMAIN m1 \cup DOMAIN m2 : Mem(m1, a) = Mem(m2, a)

\* every address but d reads the same value in m1 and m2
SameCellsBut(m1, m2, d) ==
  \A a \in (DOMAIN m1 \cup DOMAIN m2) \ {d} : Mem(m1, a) = Mem(m2, a)

\* this step is one iteration of the loop of run() or run_until_input()
LoopStep == call \in {"run", "run_until_input"}

\* this step is a whole call of inject_input
InjectStep == call = "none" /\ call' = "none" /\ last_call' = "inject_input"

\* run_until_input has returned Ok(()) without the engine having halted
Suspended ==
  /\ call = "none"
  /\ last_call = "run_until_input"
  /\ result = "ok"
  /\ prg.active

\* the queue of a batch-mode engine holds a value not yet read
Unread(p) == Batch(p) /\ p.input_pointer < Len(p.input)

C2_SuspendsOnEmptyQueue ==
  [][(LoopStep /\ AtOpcode(prg, 3) /\ Batch(prg) /\ ~Unread(prg))
       => (call' = "none" /\ result' = "ok" /\ prg' = prg)]_vars

(***************************************************************************)
(* C3                                                                      *)
(***************************************************************************)
\* C3: in batch mode the k-th input instruction executed stores the k-th value
\* ever supplied (prg.input holds the pre-supplied values followed by the
\* injected ones, in order): the stored values are a prefix of the supplied.
C3_Fifo ==
  Batch(prg) =>
    /\ Len(stored) <= Len(prg.input)
    /\ \A k \in 1..Len(stored) : stored[k] = prg.input[k]

(***************************************************************************)
(* C4                                                                      *)
(***************************************************************************)
\* C4: once the engine has halted (active = FALSE) it stays halted, and no
\* later step of run, run_until_input or inject_input changes the instruction
\* pointer, the relative base, the value of any memory cell, the input
\* position or the output log.
C4_HaltedIsTerminal ==
  [][~prg.active
       => /\ ~prg'.active
          /\ prg'.instruction_pointer = prg.instruction_pointer
          /\ prg'.relative_base = prg.relative_base
          /\ SameCells(prg.memory, prg'.memory)
          /\ prg'.input_pointer = prg.input_pointer
          /\ prg'.output = prg.output]_vars

\* C4 witness: inject_input has been called on a halted engine holding a
\* value it never read
C4_Witness ==
  /\ ~prg.active
  /\ call = "none"
  /\ last_call = "inject_input"
  /\ Unread(prg)

(***************************************************************************)
(* C5                                                                      *)
(***************************************************************************)
\* the raw store parameter of the input instruction at the instruction pointer
RawStore(p) == Mem(p.memory, p.instruction_pointer + 1)

\* the address the input instruction at the instruction pointer stores to
StoreTarget(p) ==
  IF OpAt(p).modes[1] = 2 THEN p.relative_base + RawStore(p) ELSE RawStore(p)

\* the store parameter of the input instruction at the instruction pointer
\* names a cell: position mode, or relative mode in the sparse-memory engine,
\* and an address that is not negative and, in the fixed-memory engine, lies
\* inside the memory
UsableStore(p) ==
  /\ StoreTarget(p) >= 0
  /\ IF p.variant = "day9"
       THEN OpAt(p).modes[1] \in {0, 2}
       ELSE /\ OpAt(p).modes[1] = 0
            /\ p.instruction_pointer + 1 \in DOMAIN p.memory
            /\ StoreTarget(p) \in DOMAIN p.memory

\* what a successful injection does
InjectionStored ==
  /\ result' = "ok"
  /\ Mem(prg'.memory, StoreTarget(prg)) = arg'
  /\ prg'.instruction_pointer = prg.instruction_pointer + 2
  /\ prg'.relative_base = prg.relative_base
  /\ prg'.output = prg.output
  /\ prg'.active = prg.active
  /\ SameCellsBut(prg.memory, prg'.memory, StoreTarget(prg))

C6_InjectRejected ==
  [][(InjectStep /\ ~AtOpcode(prg, 3))
       => /\ result' = "err"
          /\ prg'.input = prg.input
          /\ prg'.instruction_pointer = prg.instruction_pointer
          /\ SameCells(prg.memory, prg'.memory)
          /\ prg'.input_pointer = prg.input_pointer
          /\ prg'.output = prg.output]_vars

(***************************************************************************)
(* C7                                                                      *)
(***************************************************************************)
\* C7: when the value fetched at the instruction pointer decodes to an opcode
\* that is not defined, run, run_until_input and inject_input return an error
\* value to the caller; the process does not panic.
C7_InvalidOpcodeReturned ==
  [][((LoopStep \/ InjectStep) /\ CellReadable(prg) /\ ~OpAt(prg).ok)
       => result' = "err"]_vars

(***************************************************************************)
(* C8                                                                      *)
(***************************************************************************)
\* the opcodes an engine variant defines
DefinedOpcodes(variant) == (1..8) \cup {99} \cup (IF variant = "day9" THEN {9} ELSE {})

\* the decimal digit of v at place 10^e
DigitAt(v, e) == (v \div (10 ^ e)) % 10

\* C8: for every non-negative operation value v whose low two decimal digits
\* form a defined opcode, decoding succeeds with opcode = v mod 100, the mode of
\* parameter k (k = 1, 2, 3) is the decimal digit of v at place 10^(k+1), 0
\* when v has no such digit, and the length is 4 for opcodes 1, 2, 7, 8, 3 for
\* 5, 6, 2 for 3, 4, 9 and 1 for 99.
C8_Decode ==
  (cur_op.decoded /\ op_value >= 0 /\ (op_value % 100) \in DefinedOpcodes(cur_op.variant))
    => /\ cur_op.op.ok
       /\ cur_op.op.opcode = op_value % 100
       /\ \A k \in 1..3 : cur_op.op.modes[k] = DigitAt(op_value, k + 1)
       /\ cur_op.op.len = CASE cur_op.op.opcode \in {1, 2, 7, 8} -> 4
                            [] cur_op.op.opcode \in {5, 6} -> 3
                            [] cur_op.op.opcode \in {3, 4, 9} -> 2
                            [] cur_op.op.opcode = 99 -> 1

\* C8 witness: an operation value with three different mode digits has been
\* decoded
C8_Witness ==
  /\ cur_op.decoded
  /\ op_value = 21008
  /\ cur_op.op.ok
  /\ cur_op.op.modes = <<0, 1, 2>>

(***************************************************************************)
(* C9                                                                      *)
(***************************************************************************)
\* the address parameter k of the instruction at the instruction pointer names
\* under mode m
EffectiveAddress(p, m, k) ==
  CASE m = 0 -> Mem(p.memory, p.instruction_pointer + k)
    [] m = 1 -> p.instruction_pointer + k
    [] m = 2 -> p.relative_base + Mem(p.memory, p.instruction_pointer + k)

\* the operand value the claim gives parameter k under mode m
OperandValue(p, m, k) ==
  CASE m = 0 -> Mem(p.memory, Mem(p.memory, p.instruction_pointer + k))
    [] m = 1 -> Mem(p.memory, p.instruction_pointer + k)
    [] m = 2 -> Mem(p.memory, p.relative_base + Mem(p.memory, p.instruction_pointer + k))

\* parameter k of the instruction at the instruction pointer has a mode of
\* {0, 1, 2} and names a cell of the memory
Resolvable(p, k) ==
  /\ OpAt(p).modes[k] \in {0, 1, 2}
  /\ EffectiveAddress(p, OpAt(p).modes[k], k) >= 0

\* this step performs the instruction at the instruction pointer successfully
\* inside a run loop
Performed == LoopStep /\ call' = call /\ CellReadable(prg) /\ OpAt(prg).ok

\* C9: the value an instruction uses for a source parameter in position mode
\* is mem[mem[ip+p]], in immediate mode mem[ip+p], in relative mode
\* mem[relative_base + mem[ip+p]] (also for a negative mem[ip+p]), wherever
\* that names a cell: a performed output appends this value to the output log,
\* a performed add stores the sum of its two operands' values, a performed
\* relative-base adjustment adds it to the relative base.
C9_OperandResolution ==
  /\ [][(Performed /\ OpAt(prg).opcode = 4 /\ Batch(prg) /\ Resolvable(prg, 1))
          => prg'.output = Append(prg.output, OperandValue(prg, OpAt(prg).modes[1], 1))]_vars
  /\ [][(Performed /\ OpAt(prg).opcode = 1 /\ Resolvable(prg, 1) /\ Resolvable(prg, 2))
          => \E d \in DOMAIN prg'.memory :
               /\ prg'.memory[d] = OperandValue(prg, OpAt(prg).modes[1], 1)
                                     + OperandValue(prg, OpAt(prg).modes[2], 2)
               /\ SameCellsBut(prg.memory, prg'.memory, d)]_vars
  /\ [][(Performed /\ OpAt(prg).opcode = 9 /\ Resolvable(prg, 1))
          => prg'.relative_base
               = prg.relative_base + OperandValue(prg, OpAt(prg).modes[1], 1)]_vars

\* C9 witness: a relative-mode output with a negative offset has been performed
\* under a relative base that is not 0
C9_Witness ==
  /\ prg.variant = "day9"
  /\ prg.relative_base = 2
  /\ prg.instruction_pointer >= 2
  /\ Mem(prg.memory, prg.instruction_pointer - 2) = 204
  /\ Mem(prg.memory, prg.instruction_pointer - 1) = -2
  /\ prg.output = <<Mem(prg.memory, 0)>>

(***************************************************************************)
(* C10                                                                     *)
(***************************************************************************)
\* the instruction at the instruction pointer carries immediate mode on its
\* store parameter
ImmediateStore(p) ==
  /\ CellReadable(p)
  /\ OpAt(p).ok
  /\ \/ OpAt(p).opcode \in {1, 2, 7, 8} /\ OpAt(p).modes[3] = 1
     \/ OpAt(p).opcode = 3 /\ OpAt(p).modes[1] = 1

\* this step executes the instruction at the instruction pointer
Executes ==
  \/ call = "run"
  \/ call = "run_until_input" /\ ~AtOpcode(prg, 3)
  \/ InjectStep /\ AtOpcode(prg, 3)

\* C10: an instruction whose store parameter carries immediate mode fails with
\* an error and writes no memory cell, in every engine variant.
C10_ImmediateStoreRejected ==
  [][(Executes /\ ImmediateStore(prg))
       => (result' = "err" /\ SameCells(prg.memory, prg'.memory))]_vars

(***************************************************************************)
(* C11                                                                     *)
(***************************************************************************)
\* the number of parameters the operation with opcode c uses
UsedParams(c) ==
  CASE c \in {1, 2, 7, 8} -> 3
    [] c \in {5, 6} -> 2
    [] c \in {3, 4, 9} -> 1
    [] OTHER -> 0

\* the instruction at the instruction pointer carries a mode digit outside
\* {0, 1, 2} on a parameter it uses
BadMode(p) ==
  /\ CellReadable(p)
  /\ OpAt(p).ok
  /\ \E k \in 1..UsedParams(OpAt(p).opcode) : OpAt(p).modes[k] \notin {0, 1, 2}

\* C11: an executed instruction with a mode digit outside {0, 1, 2} on a
\* parameter it uses makes the method return an error, and no memory cell is
\* written, no output appended, the instruction pointer and the relative base
\* unchanged.
C11_BadModeRejected ==
  [][(Executes /\ BadMode(prg))
       => /\ result' = "err"
          /\ SameCells(prg.memory, prg'.memory)
          /\ prg'.output = prg.output
          /\ prg'.instruction_pointer = prg.instruction_pointer
          /\ prg'.relative_base = prg.relative_base]_vars

Succeeds ==
  /\ Executes
  /\ CellReadable(prg)
  /\ OpAt(prg).ok
  /\ \/ LoopStep /\ call' = call
     \/ InjectStep /\ result' = "ok"

\* the fixed length of the instruction with opcode c
FixedLength(c) ==
  CASE c \in {1, 2, 7, 8} -> 4
    [] c \in {5, 6} -> 3
    [] c \in {3, 4, 9} -> 2

\* the value of parameter k of the instruction at the instruction pointer
Val(p, k) == OperandValue(p, OpAt(p).modes[k], k)

\* the instruction at the instruction pointer is a jump whose condition holds
JumpTaken(p) ==
  \/ OpAt(p).opcode = 5 /\ Val(p, 1) # 0
  \/ OpAt(p).opcode = 6 /\ Val(p, 1) = 0

\* C13: every successfully executed instruction other than a taken jump sets
\* the instruction pointer to its previous value plus the instruction's fixed
\* length (4 for add, multiply, less-than, equals; 3 for a jump that falls
\* through; 2 for input, output, adjust-relative-base); a taken jump sets it
\* to the value of the target operand.
C13_PointerAdvance ==
  [][Succeeds
       => prg'.instruction_pointer =
            IF JumpTaken(prg) THEN Val(prg, 2)
            ELSE prg.instruction_pointer + FixedLength(OpAt(prg).opcode)]_vars

\* C13 witness: a jump-if-false fell through behind a relative-base
\* adjustment: the pointer stands 2 + 3 cells into the program
C13_Witness ==
  /\ prg.instruction_pointer = 5
  /\ prg.relative_base = 2
  /\ Mem(prg.memory, 2) % 100 = 6
  /\ result # "panic"
  /\ prg.active

(***************************************************************************)
(* C14                                                                     *)
(***************************************************************************)
\* the address the store parameter k of the instruction at the instruction
\* pointer names
Dst(p, k) ==
  IF OpAt(p).modes[k] = 2
    THEN p.relative_base + Mem(p.memory, p.instruction_pointer + k)
    ELSE Mem(p.memory, p.instruction_pointer + k)

\* this step executes successfully an instruction with opcode c whose store
\* parameter is in position or relative mode
Stores(c) == Succeeds /\ OpAt(prg).opcode = c /\ OpAt(prg).modes[3] \in {0, 2}

\* after this step dst holds v, every other cell, the output log and the
\* relative base are as before
StoredOnly(v) ==
  /\ Mem(prg'.memory, Dst(prg, 3)) = v
  /\ SameCellsBut(prg.memory, prg'.memory, Dst(prg, 3))
  /\ prg'.output = prg.output
  /\ prg'.relative_base = prg.relative_base

\* C14: add (opcode 1) stores val(src1) + val(src2) at dst and multiply
\* (opcode 2) stores val(src1) * val(src2) at dst, for every combination of
\* source modes, and they change no memory cell other than dst, no output and
\* not the relative base.
C14_AddMultiply ==
  /\ [][Stores(1) => StoredOnly(Val(prg, 1) + Val(prg, 2))]_vars
  /\ [][Stores(2) => StoredOnly(Val(prg, 1) * Val(prg, 2))]_vars

\* C14 witness: behind a relative-base adjustment by 2, a multiply of a
\* relative-mode operand (the instruction's own cell, 1202) and an immediate 2
\* has stored 2404 in the never loaded cell 7
C14_Witness ==
  /\ prg.instruction_pointer = 6
  /\ prg.relative_base = 2
  /\ Mem(prg.memory, 2) = 1202
  /\ Mem(prg.memory, 3) = 0
  /\ Mem(prg.memory, 4) = 2
  /\ Mem(prg.memory, 5) = 7
  /\ Mem(prg.memory, 7) = 2404

(***************************************************************************)
(* C15                                                                     *)
(***************************************************************************)
\* C15: jump-if-true (opcode 5) sets the instruction pointer to val(target)
\* exactly when val(cond) # 0, jump-if-false (opcode 6) exactly when
\* val(cond) = 0; otherwise the pointer advances by 3.  Neither changes a
\* memory value, the output log or the relative base.
C15_Jumps ==
  /\ [][(Succeeds /\ OpAt(prg).opcode = 5)
          => /\ prg'.instruction_pointer =
                  IF Val(prg, 1) # 0 THEN Val(prg, 2)
                  ELSE prg.instruction_pointer + 3
             /\ SameCells(prg.memory, prg'.memory)
             /\ prg'.output = prg.output
             /\ prg'.relative_base = prg.relative_base]_vars
  /\ [][(Succeeds /\ OpAt(prg).opcode = 6)
          => /\ prg'.instruction_pointer =
                  IF Val(prg, 1) = 0 THEN Val(prg, 2)
                  ELSE prg.instruction_pointer + 3
             /\ SameCells(prg.memory, prg'.memory)
             /\ prg'.output = prg.output
             /\ prg'.relative_base = prg.relative_base]_vars

\* C15 witness: the jump-if-false 1106,0,2 has been taken in a run loop: the
\* pointer is 2 although the instruction is 3 cells long
C15_Witness ==
  /\ prg.instruction_pointer = 2
  /\ Mem(prg.memory, 0) = 1106
  /\ Mem(prg.memory, 1) = 0
  /\ Mem(prg.memory, 2) = 2
  /\ call \in {"run", "run_until_input"}
  /\ steps = 1

(***************************************************************************)
(* C16                                                                     *)
(***************************************************************************)
\* C16: less-than (opcode 7) stores 1 at dst if val(src1) < val(src2) and 0
\* otherwise; equals (opcode 8) stores 1 at dst if val(src1) = val(src2) and 0
\* otherwise; the stored value is 0 or 1 and the comparison is the signed one.
C16_Comparisons ==
  /\ [][Stores(7)
          => /\ Mem(prg'.memory, Dst(prg, 3)) = IF Val(prg, 1) < Val(prg, 2) THEN 1 ELSE 0
             /\ Mem(prg'.memory, Dst(prg, 3)) \in {0, 1}]_vars
  /\ [][Stores(8)
          => /\ Mem(prg'.memory, Dst(prg, 3)) = IF Val(prg, 1) = Val(prg, 2) THEN 1 ELSE 0
             /\ Mem(prg'.memory, Dst(prg, 3)) \in {0, 1}]_vars

\* C16 witness: the less-than 1107,-3,2,7 has stored 1 in cell 7: -3 < 2 in
\* the signed reading
C16_Witness ==
  /\ prg.instruction_pointer = 4
  /\ Mem(prg.memory, 0) = 1107
  /\ Mem(prg.memory, 1) = -3
  /\ Mem(prg.memory, 2) = 2
  /\ Mem(prg.memory, 3) = 7
  /\ Mem(prg.memory, 7) = 1

(***************************************************************************)
(* C17                                                                     *)
(***************************************************************************)
\* this step executes a relative-base adjustment successfully
Adjusts == Succeeds /\ OpAt(prg).opcode = 9

\* C17: the relative base starts at 0, opcode 9 changes it to
\* relative_base + val(src), val(src) negative included, and no other
\* instruction and no engine method changes it.
C17_RelativeBase ==
  /\ [](last_call = "new" => prg.relative_base = 0)
  /\ [][Adjusts => prg'.relative_base = prg.relative_base + Val(prg, 1)]_vars
  /\ [][~Adjusts => prg'.relative_base = prg.relative_base]_vars

\* C17 witness: the adjustments 109,2 and 109,-3 have been executed
C17_Witness ==
  /\ prg.relative_base = -1
  /\ prg.instruction_pointer = 4
  /\ Mem(prg.memory, 2) = 109
  /\ Mem(prg.memory, 3) = -3

(***************************************************************************)
(* C18                                                                     *)
(***************************************************************************)
\* address a was neither loaded nor written
Unset(p, a) == a >= 0 /\ a \notin DOMAIN p.memory

\* this step performs, in the sparse-memory engine's run loop, an output whose
\* operand lies at an unset address
ReadsUnset ==
  /\ prg.variant = "day9"
  /\ LoopStep
  /\ AtOpcode(prg, 4)
  /\ OpAt(prg).modes[1] \in {0, 2}
  /\ Unset(prg, EffectiveAddress(prg, OpAt(prg).modes[1], 1))

\* this step performs, in the sparse-memory engine's run loop, an add with
\* immediate or position sources whose store parameter names an unset address
WritesUnset ==
  /\ prg.variant = "day9"
  /\ LoopStep
  /\ AtOpcode(prg, 1)
  /\ OpAt(prg).modes[1] \in {0, 1} /\ OpAt(prg).modes[2] \in {0, 1}
  /\ EffectiveAddress(prg, OpAt(prg).modes[1], 1) >= 0
  /\ EffectiveAddress(prg, OpAt(prg).modes[2], 2) >= 0
  /\ OpAt(prg).modes[3] \in {0, 2}
  /\ Unset(prg, Dst(prg, 3))

\* the cell this step may write: the store parameter's of a successful
\* storing instruction
Written(a) ==
  /\ Succeeds
  /\ \/ OpAt(prg).opcode \in {1, 2, 7, 8} /\ a = Dst(prg, 3)
     \/ OpAt(prg).opcode = 3 /\ a = Dst(prg, 1)

\* C18: in the sparse-memory engine a read of an address never loaded or
\* written yields 0 and changes the value read at no address; a write to such
\* an address succeeds, and the value is read there afterwards: no step
\* changes the value of a cell other than by a write to it.
C18_SparseMemory ==
  /\ [][ReadsUnset
          => /\ call' = call
             /\ Batch(prg) => prg'.output = Append(prg.output, 0)
             /\ SameCells(prg.memory, prg'.memory)]_vars
  /\ [][WritesUnset
          => /\ call' = call
             /\ Dst(prg, 3) \in DOMAIN prg'.memory
             /\ prg'.memory[Dst(prg, 3)] = Val(prg, 1) + Val(prg, 2)]_vars
  /\ [][prg.variant = "day9"
          => \A a \in DOMAIN prg.memory \cup DOMAIN prg'.memory :
               Mem(prg'.memory, a) = Mem(prg.memory, a) \/ Written(a)]_vars

\* C18 witness: the add 1001,1,5,4 has written 6 into the unset cell 4, and the
\* engine has then fetched that cell and executed it as a jump-if-false
C18_Witness ==
  /\ prg.variant = "day9"
  /\ Mem(prg.memory, 0) = 1001
  /\ Mem(prg.memory, 4) = 6
  /\ prg.instruction_pointer = 7

(***************************************************************************)
(* C19                                                                     *)
(***************************************************************************)
\* C19: no address the engine reads or writes is negative, and the
\* instruction pointer is never negative: an operand or jump target that
\* resolves to a negative number is not used as a (wrapped) address.  A
\* negative key or pointer here is the address 2^64 + key of the code.
C19_NoNegativeAddress ==
  /\ \A a \in DOMAIN prg.memory : a >= 0
  /\ prg.instruction_pointer >= 0

(***************************************************************************)
(* C20                                                                     *)
(***************************************************************************)
\* the last element of amplifier k's output log
LastOutputOf(k) == Amp(k).output[Len(Amp(k).output)]

\* what the claim lets main hand to the amplifier whose turn it is
Handed == IF net.idx = 1 /\ net.first THEN 0 ELSE LastOutputOf(Before(net.idx))

\* the statement after the current one, inside the feedback loop: inject, run
\* and read for one amplifier, then the next amplifier, the loop test after E
InOrder ==
  CASE net.pc = "inject" -> net'.pc = "run" /\ net'.idx = net.idx
    [] net.pc = "run" -> net'.pc = "read" /\ net'.idx = net.idx
    [] net.pc = "read" /\ net.idx < 5 -> net'.pc = "inject" /\ net'.idx = net.idx + 1
    [] net.pc = "read" /\ net.idx = 5 -> net'.pc = "test"
    [] net.pc = "test" -> net'.pc = "end" \/ (net'.pc = "inject" /\ net'.idx = 1)
    [] OTHER -> FALSE

\* C20: in the feedback loop the five instances take their turns in the cyclic
\* order A, B, C, D, E, each once per round, and the value injected into an
\* instance is the last element of the previous instance's output log at that
\* moment (E's for A), except that the first value injected into A after the
\* phases is the seed 0; an instance waiting at an input instruction has that
\* value at the end of its queue afterwards.
C20_FeedbackOrder ==
  /\ [][(net.pc \in {"inject", "run", "read", "test"}
           /\ (net.stage = "loop" \/ net.pc = "test")
           /\ net'.pc # "panic")
          => InOrder]_vars
  /\ [][(net.stage = "loop" /\ net.pc = "inject")
          => /\ net'.injected = Handed
             /\ AtOpcode(Amp(net.idx), 3)
                  => /\ net'.pc = "run"
                     /\ net'.amps[net.idx].input = Append(Amp(net.idx).input, Handed)]_vars

\* C20 witness: in a later round A has been handed E's last output, which is
\* not the seed
C20_Witness ==
  /\ net.pc = "run"
  /\ net.stage = "loop"
  /\ net.idx = 1
  /\ ~net.first
  /\ Amp(5).output # <<>>
  /\ net.injected = LastOutputOf(5)
  /\ net.injected # 0
  /\ Len(Amp(5).output) > 1

(***************************************************************************)
(* C26                                                                     *)
(***************************************************************************)
\* the orderings of the values 5..9 with every value occurring once
Orderings == {f \in [1..5 -> 5..9] : \A i, j \in 1..5 : f[i] = f[j] => i = j}

\* johnson_trotter has returned its vector
JtReturned == net.pc = "returned"

\* C26: johnson_trotter terminates and returns exactly 120 sequences, pairwise
\* distinct, each an ordering of 5, 6, 7, 8, 9 with every value once, so that
\* every permutation of {5,...,9} is produced exactly once.
C26_AllPermutations ==
  /\ <>JtReturned
  /\ [](JtReturned =>
          /\ Len(net.permutations) = 120
          /\ \A i, j \in 1..Len(net.permutations) :
               net.permutations[i] = net.permutations[j] => i = j
          /\ \A i \in 1..Len(net.permutations) : net.permutations[i] \in Orderings
          /\ \A f \in Orderings : \E i \in 1..Len(net.permutations) : net.permutations[i] = f
          /\ johnson_trotter = net.permutations)

\* C26 witness: the function has returned, the descending ordering among the
\* sequences
C26_Witness ==
  /\ JtReturned
  /\ \E i \in 1..Len(net.permutations) : net.permutations[i] = <<9, 8, 7, 6, 5>>

(***************************************************************************)
(* C21                                                                     *)
(***************************************************************************)
\* the values amplifier k's input instructions have stored, in order: day7's
\* inject_input pushes a value only to have the input instruction store it
StoredBy(k) == Amp(k).input

\* C21: for every permutation each instance is created fresh from the same
\* program text with an empty input queue, and the first value an instance's
\* input instruction stores is that instance's phase setting (element k of the
\* permutation for instance k); no signal value reaches it before.
C21_PhaseFirst ==
  /\ (net.pc = "inject" /\ net.stage = "init")
       => Amp(net.idx) = IntcodeProgram_new("day7", net.data, Some(<<>>))
  /\ \A k \in 1..Len(net.amps) :
       StoredBy(k) # <<>> => StoredBy(k)[1] = elements[k]

(***************************************************************************)
(* C22                                                                     *)
(***************************************************************************)
\* the evaluation of the current permutation is over: main is at the
\* comparison of cur_o with max_final
Evaluated == net.pc = "end"

\* the last instance exists and has halted
LastHalted == Len(net.amps) = 5 /\ ~Amp(5).active

\* C22: the evaluation of one permutation ends exactly when the last instance
\* (E) has halted: it is over only then, and once E has halted nothing but
\* the read of E's output and the loop test comes before the end; the value
\* recorded as the permutation's result is the last value E emitted, also when
\* E halts during the phase initialisation, before any round.
C22_EndsWithLastOutput ==
  /\ Evaluated => LastHalted
  /\ LastHalted => /\ net.pc \in {"read", "test", "end", "done", "panic"}
                   /\ net.pc = "read" => net.idx = 5
  /\ (Evaluated /\ Amp(5).output # <<>>) => net.cur_o = LastOutputOf(5)

(***************************************************************************)
(* C23                                                                     *)
(***************************************************************************)
\* main is about to call inject_input or run_until_input on amplifier k
Invokes(k) == net.pc \in {"inject", "run"} /\ net.idx = k

\* C23: no instance of the feedback network is injected with input or run
\* again after it has halted: inject_input and run_until_input are invoked
\* only on instances whose active flag is true.
C23_HaltedNotResumed == \A k \in 1..Len(net.amps) : Invokes(k) => Amp(k).active

(***************************************************************************)
(* C24                                                                     *)
(***************************************************************************)
\* main goes on with the evaluation of the current permutation: it creates,
\* injects, runs or reads an instance, tests the loop or compares the result
GoesOn == net.pc \in {"new", "inject", "run", "read", "test", "end"}

\* C24: when an instance reports an error during the evaluation of a
\* permutation (a failed injection or a failed run), the composition layer
\* stops evaluating that permutation: it steps no further instance and records
\* no result for it.
C24_ErrorAborts == net.reported => ~GoesOn

(***************************************************************************)
(* C25                                                                     *)
(***************************************************************************)
\* every permutation has been evaluated
AllEvaluated == net.pc = "done"

\* C25: after all 120 permutations are evaluated the retained value is the
\* maximum of the per-permutation final outputs, and the retained index is
\* that of a permutation producing this maximum, whatever the final outputs
\* are, all-negative and all-zero ones included.
C25_RetainsMaximum ==
  AllEvaluated =>
    /\ Len(net.finals) = 120
    /\ \A k \in 1..Len(net.finals) : net.finals[k] <= net.max_final
    /\ net.max_ind + 1 \in 1..Len(net.finals)
    /\ net.finals[net.max_ind + 1] = net.max_final

(***************************************************************************)
(* C27                                                                     *)
(***************************************************************************)
\* the two test programs that write the halt instruction they end on
SelfWriting == { <<1002, 4, 3, 4, 33>>, <<1101, 100, -1, 4, 0>> }

\* the run() call on the test program has returned or panicked
RunReturned == last_call = "run" /\ call = "none"

\* the step taken halts the program
Halts == result' = "ok" /\ ~prg'.active /\ prg'.memory = prg.memory

\* C27: instructions are decoded from the current memory contents at every
\* fetch: an iteration of run() halts exactly when the cell at the instruction
\* pointer holds a halt instruction now, whatever the cell held in the program
\* text.  "1002,4,3,4,33" and "1101,100,-1,4,0" each write 99 into cell 4,
\* halt there and leave every other cell unchanged.
C27_DecodedAtFetch ==
  /\ [][(call = "run" /\ CellReadable(prg)) => (AtOpcode(prg, 99) <=> Halts)]_vars
  /\ []((net.data \in SelfWriting /\ RunReturned) =>
          /\ result = "ok"
          /\ ~prg.active
          /\ prg.instruction_pointer = 4
          /\ prg.memory = [a \in 0..4 |-> IF a = 4 THEN 99 ELSE net.data[a + 1]])

\* C27 witness: the multiply program has halted on the 99 it wrote over 33
C27_Witness ==
  /\ net.data = <<1002, 4, 3, 4, 33>>
  /\ RunReturned
  /\ result = "ok"
  /\ prg.memory[4] = 99
  /\ net.data[5] = 33

(***************************************************************************)
(* C28                                                                     *)
(***************************************************************************)
\* the first n elements of sequence q
Prefix(q, n) == [i \in 1..n |-> q[i]]

\* C28: the program "109,1,204,-1,1001,100,1,100,1008,100,16,101,1006,101,0,99"
\* run to completion with an empty input queue copies itself: the output log
\* grows along its 16 initial memory values, and when run() returns the
\* program has halted with an output log equal to them, element by element
\* and in order.
C28_Quine ==
  net.data = Quine =>
    /\ Len(prg.output) <= Len(Quine)
    /\ prg.output = Prefix(Quine, Len(prg.output))
    /\ RunReturned => /\ result = "ok"
                      /\ ~prg.active
                      /\ prg.output = Quine

\* C28 witness: run() has returned with the sixteen values in the output log
C28_Witness ==
  /\ net.data = Quine
  /\ net.prg_input = Some(<<>>)
  /\ RunReturned
  /\ Len(prg.output) = 16
  /\ prg.output[16] = 99

(***************************************************************************)
(* C29                                                                     *)
(***************************************************************************)
\* 1219070632396864 = 34915192 * 34915192, above 2^50
SixteenDigits == Wide(FALSE, <<1, 2, 1, 9, 0, 7, 0, 6, 3, 2, 3, 9, 6, 8, 6, 4>>)

\* 1125899906842624 = 2^50
MiddleNumber == Wide(FALSE, <<1, 1, 2, 5, 8, 9, 9, 9, 0, 6, 8, 4, 2, 6, 2, 4>>)

\* C29: arithmetic and output carry values beyond 32 bits without wrap-around
\* or truncation: "1102,34915192,34915192,7,4,7,99,0" puts out exactly
\* 1219070632396864 as its single output, and "104,1125899906842624,99" puts
\* out that literal unchanged.
C29_WideValues ==
  /\ (net.data = <<1102, 34915192, 34915192, 7, 4, 7, 99, 0>> /\ RunReturned)
       => /\ result = "ok"
          /\ prg.output = <<SixteenDigits>>
  /\ (net.data = <<104, MiddleNumber, 99>> /\ RunReturned)
       => /\ result = "ok"
          /\ prg.output = <<MiddleNumber>>

\* C29 witness: the product has been put out, a value of sixteen digits
C29_Witness ==
  /\ net.data = <<1102, 34915192, 34915192, 7, 4, 7, 99, 0>>
  /\ RunReturned
  /\ Len(prg.output) = 1
  /\ Len(prg.output[1].digits) = 16
  /\ prg.memory[7] = prg.output[1]

(***************************************************************************)
(* C30                                                                     *)
(***************************************************************************)
\* day5's first test program: position-mode equals
EqualsEight == <<3, 9, 8, 9, 10, 9, 4, 9, 99, -1, 8>>

\* the single input value the program was given
GivenInput == net.prg_input.vec[1]

\* C30: the program "3,9,8,9,10,9,4,9,99,-1,8" run with a single input value x
\* halts with exactly one output, which is 1 when x = 8 and 0 for every
\* other x.
C30_EqualsEight ==
  (net.data = EqualsEight /\ RunReturned) =>
    /\ result = "ok"
    /\ ~prg.active
    /\ prg.output = << IF GivenInput = 8 THEN 1 ELSE 0 >>

\* C30 witness: the run with input 8 has put out 1
C30_Witness ==
  /\ net.data = EqualsEight
  /\ RunReturned
  /\ GivenInput = 8
  /\ prg.output = <<1>>
  /\ prg.memory[9] = 1

(***************************************************************************)
(* C31                                                                     *)
(***************************************************************************)
\* the cell k places behind the instruction pointer of day2's run()
D2Param(k) == net.data[net.ip + k]

\* run() is at an add (c = 1) or multiply (c = 2) instruction whose three
\* addresses lie inside the vector
D2At(c) ==
  /\ net.pc = "loop"
  /\ net.ip + 3 \in DOMAIN net.data
  /\ net.data[net.ip] = c
  /\ \A k \in 1..3 : D2Param(k) \in DOMAIN net.data

\* the vector after the store of v at the third address, the pointer moved on
D2Applied(v) ==
  /\ net'.pc = "loop"
  /\ net'.ip = net.ip + 4
  /\ net'.data = [net.data EXCEPT ![D2Param(3)] = v]

\* the final vectors main's tests expect for the texts it runs
D2Expected(text) ==
  CASE text = <<1, 9, 10, 3, 2, 3, 11, 0, 99, 30, 40, 50>> ->
         <<3500, 9, 10, 70, 2, 3, 11, 0, 99, 30, 40, 50>>
    [] text = <<1, 0, 0, 0, 99>> -> <<2, 0, 0, 0, 99>>
    [] text = <<2, 3, 0, 3, 99>> -> <<2, 3, 0, 6, 99>>
    [] text = <<2, 4, 4, 5, 99, 0>> -> <<2, 4, 4, 5, 99, 9801>>
    [] text = <<1, 1, 1, 4, 99, 5, 6, 0, 99>> -> <<30, 1, 1, 4, 2, 5, 6, 0, 99>>

\* C31: a position-mode program of add, multiply and halt instructions run to
\* completion leaves memory equal to the result of applying its instructions
\* in order: an add stores the sum and a multiply the product of the two
\* addressed cells at the third address and the next instruction is four
\* cells on, a halt ends the run with memory as it is;
\* "1,9,10,3,2,3,11,0,99,30,40,50" ends with memory
\* [3500,9,10,70,2,3,11,0,99,30,40,50], and main's other tests end as
\* expected.
C31_AddMultiplyPrograms ==
  /\ [][D2At(1) => D2Applied(net.data[D2Param(1)] + net.data[D2Param(2)])]_vars
  /\ [][D2At(2) => D2Applied(net.data[D2Param(1)] * net.data[D2Param(2)])]_vars
  /\ [][(net.pc = "loop" /\ net.ip \in DOMAIN net.data /\ net.data[net.ip] = 99)
          => (net'.pc = "returned" /\ net'.data = net.data)]_vars
  /\ []((net.pc = "returned" /\ net.text \in Day2Tests)
          => net.data = build_intcode_program(D2Expected(net.text)))

\* C31 witness: the first test program has returned with 3500 in cell 0 and 70
\* in cell 3
C31_Witness ==
  /\ net.pc = "returned"
  /\ net.text = <<1, 9, 10, 3, 2, 3, 11, 0, 99, 30, 40, 50>>
  /\ net.data[0] = 3500
  /\ net.data[3] = 70
  /\ net.ip = 8

(***************************************************************************)
(* C33                                                                     *)
(***************************************************************************)
\* C33: every operation the decoder accepts carries exactly three parameter
\* modes, whatever the number of decimal digits of the operation value.
C33_ThreeModes ==
  (cur_op.decoded /\ cur_op.op.ok) => Len(cur_op.op.modes) = 3

(***************************************************************************)
(* C34                                                                     *)
(***************************************************************************)
\* the log q extends the log p: p is the prefix of q of p's length
Extends(q, p) == Len(q) >= Len(p) /\ Prefix(q, Len(p)) = p

\* this step executes an output instruction to its end
Outputs == Succeeds /\ AtOpcode(prg, 4)

\* C34: in batch mode the output log is append-only: the log after any step of
\* the engine (a loop iteration of run or run_until_input, a call of
\* inject_input) has the log before the step as a prefix; a step that executes
\* an output instruction appends exactly the value of its operand at the end,
\* and any other step leaves the log as it is.
C34_AppendOnly ==
  [][Batch(prg)
       => /\ Extends(prg'.output, prg.output)
          /\ Outputs => prg'.output = Append(prg.output, Val(prg, 1))
          /\ ~Outputs => prg'.output = prg.output]_vars

\* C34 witness: two output instructions have been executed in batch mode, and
\* the log holds their two values in the order of execution
C34_Witness ==
  /\ Batch(prg)
  /\ prg.variant = "day9"
  /\ Len(prg.output) = 2
  /\ prg.output[1] = -1
  /\ prg.output[2] = 4

(***************************************************************************)
(* C35                                                                     *)
(***************************************************************************)
\* q is p with the two different values at one pair of adjacent positions
\* exchanged
AdjacentSwap(p, q) ==
  \E i \in 1..4 : /\ p[i] # p[i + 1]
                  /\ q = [p EXCEPT ![i] = p[i + 1], ![i + 1] = p[i]]

\* C35: the first permutation johnson_trotter pushes is [5,6,7,8,9], and every
\* later one differs from its predecessor by the swap of exactly two adjacent
\* positions, in the vector as it grows and as it is returned.
C35_AdjacentSwaps ==
  /\ net.permutations[1] = <<5, 6, 7, 8, 9>>
  /\ \A n \in 2..Len(net.permutations) :
       AdjacentSwap(net.permutations[n - 1], net.permutations[n])
  /\ JtReturned => /\ johnson_trotter[1] = <<5, 6, 7, 8, 9>>
                   /\ \A n \in 2..Len(johnson_trotter) :
                        AdjacentSwap(johnson_trotter[n - 1], johnson_trotter[n])

\* C35 witness: the function has returned; its second permutation exchanged the
\* last two positions of the first, and its third the two positions before
C35_Witness ==
  /\ JtReturned
  /\ Len(net.permutations) > 2
  /\ net.permutations[2] = <<5, 6, 7, 9, 8>>
  /\ net.permutations[3] = <<5, 6, 9, 7, 8>>
  /\ net.permutations[Len(net.permutations)] = <<6, 5, 7, 8, 9>>

(***************************************************************************)
(* C36                                                                     *)
(***************************************************************************)
\* the run_until_input() call that came to `it` ended (by the halt, an error
\* or a panic) without having stopped at an input instruction
ended_without_input(it) ==
  /\ it.kind \in {"break", "err", "panic"}
  /\ it.kind = "break" => ~it.prg.active

\* no input instruction is reached from the state of p on
InputFree(p) == ended_without_input(run_until_input(p))

\* C36: from a state from which no input instruction is reached, run() ends in
\* the state run_until_input() ends in from that state (memory, instruction
\* pointer, relative base, output log, active flag) with the same result:
\* every iteration of run()'s loop keeps the end of run_until_input() from the
\* current state, and the iteration run() returns at is in that end.
C36_RunAsRunUntilInput ==
  [][(call = "run" /\ InputFree(prg))
       => IF call' = "run"
            THEN run_until_input(prg') = run_until_input(prg)
            ELSE /\ prg' = run_until_input(prg).prg
                 /\ result' = Returned(run_until_input(prg).kind)]_vars

\* C36 witness: run() has halted a program that wrote an output and met no
\* input instruction
C36_Witness ==
  /\ RunReturned
  /\ result = "ok"
  /\ ~prg.active
  /\ Len(prg.output) = 1
  /\ prg.instruction_pointer = 2
  /\ InputFree(prg)

(***************************************************************************)
(* C37                                                                     *)
(***************************************************************************)
\* the modes the engine of p defines for a source operand and for a destination
SourceModes(p) == IF p.variant = "day9" THEN {0, 1, 2} ELSE {0, 1}
DestinationModes(p) == IF p.variant = "day9" THEN {0, 2} ELSE {0}

\* parameter k of the operation with opcode c is its destination
IsDestination(c, k) == (c \in {1, 2, 7, 8} /\ k = 3) \/ (c = 3 /\ k = 1)

\* every parameter the instruction at the instruction pointer uses carries a
\* mode that is valid for it
ValidModes(p) ==
  /\ CellReadable(p)
  /\ OpAt(p).ok
  /\ \A k \in 1..UsedParams(OpAt(p).opcode) :
       OpAt(p).modes[k] \in IF IsDestination(OpAt(p).opcode, k)
                              THEN DestinationModes(p)
                              ELSE SourceModes(p)

\* C37: an executed instruction whose parameters all carry valid modes does not
\* fail with the unrecognized-parameter-mode error (the only error an executed
\* instruction with a defined opcode and integer input returns), whatever the
\* operand values, an address of -1 included.
C37_ValidModesAccepted ==
  [][(Executes /\ ValidModes(prg)) => result' # "err"]_vars

(***************************************************************************)
(* C38                                                                     *)
(***************************************************************************)
\* C38: an executed input instruction that fails with an error consumes no
\* input value: the input position after the error is the one before the
\* instruction was fetched.
C38_FailedInputKeepsValue ==
  [][(Executes /\ AtOpcode(prg, 3) /\ Batch(prg) /\ result' = "err")
       => prg'.input_pointer = prg.input_pointer]_vars

(***************************************************************************)
(* C39                                                                     *)
(***************************************************************************)
\* C39: the decoder, given the cell at the instruction pointer, rejects every
\* negative value as an invalid opcode: no negative value decodes to an
\* operation.
C39_NegativeRejected ==
  (cur_op.decoded /\ op_value < 0) => ~cur_op.op.ok

(***************************************************************************)
(* C40                                                                     *)
(***************************************************************************)
\* C40: whenever the feedback driver is about to take the last element of an
\* instance's output log as the hand-off value, that instance has emitted at
\* least one value, for every program the instances run.
C40_ReadsEmittedOutput ==
  net.pc = "read" => Amp(net.idx).output # <<>>

====
